---- MODULE Spec2Model ----
(***************************************************************************)
(* Model of src/plugin.py: MusubiTrainingPlugin, the installer / activation *)
(* plugin of the Musubi Tuner training tab.                                 *)
(*                                                                          *)
(* Strings are sequences of characters.  A character is a one-token TLA+    *)
(* string; the fixed names of the program ("src", ".git", "install_path",   *)
(* the literal parts of a message) are single tokens.                       *)
(***************************************************************************)
EXTENDS Integers, Sequences, FiniteSets, TLC

VARIABLES config, file, fs, cwd, sys_path, ui, musubi_path, gpu, last

vars == <<config, file, fs, cwd, sys_path, ui, musubi_path, gpu, last>>

----------------------------------------------------------------------------
(* Characters and fixed strings *)

QUOTE == "\""
BSL == "\\"
SEP == "/"

MUSUBI_REPO_URL == <<"https://github.com/Tophness/musubi-tuner.git">>
DEFAULT_INSTALL_DIR_NAME == <<"musubi-tuner">>
plugin_id == "musubi_training"

\* os.path.dirname(__file__): the directory the plugin lives in
PluginDir == <<SEP, "p">>
\* the working directory the host process is started in
HostCwd == <<SEP, "w">>

----------------------------------------------------------------------------
(* Sequences *)

Range(s) == {s[i] : i \in 1..Len(s)}

Last(s) == s[Len(s)]

\* sub occurs in s as a contiguous run (Python: sub in s)
Contains(s, sub) ==
  \E i \in 0..(Len(s) - Len(sub)) :
     \A j \in 1..Len(sub) : s[i + j] = sub[j]

RECURSIVE Flatten(_)
Flatten(ss) == IF ss = <<>> THEN <<>> ELSE Head(ss) \o Flatten(Tail(ss))

\* sep.join(parts)
RECURSIVE JoinWith(_, _)
JoinWith(sep, parts) ==
  IF parts = <<>> THEN <<>>
  ELSE IF Len(parts) = 1 THEN Head(parts)
  ELSE Head(parts) \o sep \o JoinWith(sep, Tail(parts))

----------------------------------------------------------------------------
(* os.path *)

IsAbs(p) == p # <<>> /\ p[1] = SEP

\* os.path.join(a, b)
PathJoin(a, b) ==
  IF IsAbs(b) THEN b
  ELSE IF a = <<>> THEN b
  ELSE IF Last(a) = SEP THEN a \o b
  ELSE a \o <<SEP>> \o b

\* os.path.join(a, b1, b2, ...)
RECURSIVE PathJoinAll(_, _)
PathJoinAll(a, bs) ==
  IF bs = <<>> THEN a ELSE PathJoinAll(PathJoin(a, Head(bs)), Tail(bs))

\* p.split("/"), as the sequence of components (possibly empty ones)
RECURSIVE SplitSep(_, _)
SplitSep(p, cur) ==
  IF p = <<>> THEN <<cur>>
  ELSE IF Head(p) = SEP THEN <<cur>> \o SplitSep(Tail(p), <<>>)
  ELSE SplitSep(Tail(p), Append(cur, Head(p)))

\* the component loop of posixpath.normpath
RECURSIVE NormComps(_, _)
NormComps(comps, acc) ==
  IF comps = <<>> THEN acc
  ELSE LET c == Head(comps) IN
       IF c = <<>> \/ c = <<".">> THEN NormComps(Tail(comps), acc)
       ELSE IF c = <<"..">>
            THEN NormComps(Tail(comps),
                           IF acc = <<>> THEN acc ELSE SubSeq(acc, 1, Len(acc) - 1))
            ELSE NormComps(Tail(comps), Append(acc, c))

\* the normalised components of os.path.abspath(p) when the working directory is d
AbsComps(p, d) ==
  IF IsAbs(p) THEN NormComps(SplitSep(p, <<>>), <<>>)
  ELSE NormComps(SplitSep(d, <<>>) \o SplitSep(p, <<>>), <<>>)

CompsToPath(comps) == <<SEP>> \o JoinWith(<<SEP>>, comps)

\* os.path.abspath(p) when the working directory is d
AbsPath(p, d) == CompsToPath(AbsComps(p, d))

----------------------------------------------------------------------------
(* The filesystem: each directory of interest and what it contains *)

Features == {"dir", "git", "pyproject", "sentinel"}

SentinelTail == << <<"src">>, <<"musubi_tuner">>, <<"gui">>, <<"gui.py">> >>
GitRel == <<".git">>
PyprojectRel == <<"pyproject.toml">>

HasFeature(f, key, feat) == key \in DOMAIN f /\ feat \in f[key]

EndsWith(s, t) ==
  Len(s) >= Len(t) /\ SubSeq(s, Len(s) - Len(t) + 1, Len(s)) = t

DropLast(s, n) == SubSeq(s, 1, Len(s) - n)

\* os.path.exists(p) in filesystem f with working directory d
PathExists(f, p, d) ==
  IF p = <<>> THEN FALSE
  ELSE LET c == AbsComps(p, d) IN
       IF EndsWith(c, SentinelTail) THEN HasFeature(f, DropLast(c, 4), "sentinel")
       ELSE IF EndsWith(c, <<GitRel>>) THEN HasFeature(f, DropLast(c, 1), "git")
       ELSE IF EndsWith(c, <<PyprojectRel>>) THEN HasFeature(f, DropLast(c, 1), "pyproject")
       ELSE HasFeature(f, c, "dir")

\* os.path.isdir(p)
PathIsDir(f, p, d) ==
  IF p = <<>> THEN FALSE ELSE HasFeature(f, AbsComps(p, d), "dir")

----------------------------------------------------------------------------
(* json.dump / json.load of a dict of strings.  The documents considered are *)
(* objects whose values are strings, and texts json.load rejects.             *)

\* a faulty encoder that writes the quote character unescaped
RECURSIVE EscapeNoQuote(_)
EscapeNoQuote(s) ==
  IF s = <<>> THEN <<>>
  ELSE LET c == Head(s) IN
       (IF c = BSL THEN <<BSL, c>> ELSE <<c>>) \o EscapeNoQuote(Tail(s))

\* the body of a JSON string literal for s
RECURSIVE Escape(_)
Escape(s) ==
  IF s = <<>> THEN <<>>
  ELSE LET c == Head(s) IN
       (IF c = QUOTE \/ c = BSL THEN <<BSL, c>> ELSE <<c>>) \o Escape(Tail(s))

DumpStr(s) == <<QUOTE>> \o Escape(s) \o <<QUOTE>>

\* dicts are functions from key strings to value strings
InstallPathKey == <<"install_path">>
OtherKey == <<"other">>
\* the order the keys are written in (it makes no difference to json.load)
KeyOrder == <<InstallPathKey, OtherKey>>

EmptyDict == [k \in {} |-> <<>>]

\* d[k] = v
DictPut(d, k, v) == [x \in (DOMAIN d) \cup {k} |-> IF x = k THEN v ELSE d[x]]

\* d.get(k, default)
DictGet(d, k, default) == IF k \in DOMAIN d THEN d[k] ELSE default

DumpItems(d) ==
  LET ks == SelectSeq(KeyOrder, LAMBDA k : k \in DOMAIN d)
  IN  [i \in 1..Len(ks) |-> DumpStr(ks[i]) \o <<":">> \o DumpStr(d[ks[i]])]

\* json.dump(d, f, indent=4), without the whitespace
JsonDump(d) == <<"{">> \o JoinWith(<<",">>, DumpItems(d)) \o <<"}">>

BadParse == [ok |-> FALSE, val |-> <<>>, next |-> 0]

\* scan a string literal whose opening quote is before position i
RECURSIVE ReadStr(_, _, _)
ReadStr(t, i, acc) ==
  IF i > Len(t) THEN BadParse
  ELSE IF t[i] = QUOTE THEN [ok |-> TRUE, val |-> acc, next |-> i + 1]
  ELSE IF t[i] = BSL
       THEN IF i + 1 <= Len(t) /\ t[i + 1] \in {QUOTE, BSL, SEP}
            THEN ReadStr(t, i + 2, Append(acc, t[i + 1]))
            ELSE BadParse
  ELSE ReadStr(t, i + 1, Append(acc, t[i]))

\* scan the members of an object from position i on, into d
RECURSIVE ReadMembers(_, _, _)
ReadMembers(t, i, d) ==
  IF i > Len(t) \/ t[i] # QUOTE THEN BadParse
  ELSE LET k == ReadStr(t, i + 1, <<>>) IN
       IF ~k.ok \/ k.next + 1 > Len(t) \/ t[k.next] # ":" \/ t[k.next + 1] # QUOTE
       THEN BadParse
       ELSE LET v == ReadStr(t, k.next + 2, <<>>) IN
            IF ~v.ok \/ v.next > Len(t) THEN BadParse
            ELSE IF t[v.next] = ","
                 THEN ReadMembers(t, v.next + 1, DictPut(d, k.val, v.val))
            ELSE IF t[v.next] = "}" /\ v.next = Len(t)
                 THEN [ok |-> TRUE, val |-> DictPut(d, k.val, v.val), next |-> v.next + 1]
            ELSE BadParse

\* json.load(f) of a document holding the text t; ok is FALSE where it raises
JsonLoad(t) ==
  IF Len(t) < 2 \/ t[1] # "{" THEN BadParse
  ELSE IF t[2] = "}"
       THEN (IF Len(t) = 2 THEN [ok |-> TRUE, val |-> EmptyDict, next |-> 3] ELSE BadParse)
  ELSE ReadMembers(t, 2, EmptyDict)

----------------------------------------------------------------------------
(* Exceptions: "none" where nothing is raised *)

\* the classes an "except Exception" clause catches
ExceptionClasses ==
  {"Exception", "ImportError", "OSError", "FileNotFoundError", "CalledProcessError"}

ExceptException(exc) == exc \in ExceptionClasses

\* what subprocess.check_call raises for an outcome of the command
CheckCallRaises(oc) ==
  CASE oc = "ok" -> "none"
    [] oc = "nonzero" -> "CalledProcessError"
    [] OTHER -> "FileNotFoundError"

\* what subprocess.run raises: the exit status is only recorded
RunRaises(oc) == IF oc = "raise" THEN "FileNotFoundError" ELSE "none"

----------------------------------------------------------------------------
(* Plugin: configuration *)

NoFile == [exists |-> FALSE, text |-> <<>>]

\* load_config(self)
LoadConfig(f_file, f_fs, d) ==
  IF f_file.exists /\ JsonLoad(f_file.text).ok
  THEN JsonLoad(f_file.text).val
  ELSE LET local_install == PathJoin(PluginDir, DEFAULT_INSTALL_DIR_NAME) IN
       IF PathExists(f_fs, PathJoinAll(local_install, SentinelTail), d)
       THEN (InstallPathKey :> local_install)
       ELSE (InstallPathKey :> <<>>)

\* save_config(self, path): the config and the document afterwards
SaveConfig(cfg, path) ==
  LET c2 == DictPut(cfg, InstallPathKey, path)
  IN  [config |-> c2, file |-> [exists |-> TRUE, text |-> JsonDump(c2)]]

----------------------------------------------------------------------------
(* Plugin: GPU lock.  The three host functions are the host's lock API. *)

GpuHolders == {"none", plugin_id, "other"}

any_GPU_process_running(g, id) == g \notin {"none", id}

\* the token afterwards, and whether the caller had to wait for it
acquire_GPU_ressources(g, id) ==
  IF g \in {"none", id} THEN [gpu |-> id, waited |-> FALSE]
  ELSE [gpu |-> g, waited |-> TRUE]

release_GPU_ressources(g, id) == IF g = id THEN "none" ELSE g

\* a faulty acquire_gpu that asks for the token without looking first
acquire_gpu_unchecked(g) ==
  LET r == acquire_GPU_ressources(g, plugin_id)
  IN  [gpu |-> r.gpu, waited |-> r.waited,
       steps |-> <<"any_GPU_process_running", "acquire_GPU_ressources">>]

\* acquire_gpu(self, state)
acquire_gpu(g) ==
  IF any_GPU_process_running(g, plugin_id)
  THEN [gpu |-> g, waited |-> FALSE,
        steps |-> <<"any_GPU_process_running", "gr.Warning">>]
  ELSE LET r == acquire_GPU_ressources(g, plugin_id)
       IN  [gpu |-> r.gpu, waited |-> r.waited,
            steps |-> <<"any_GPU_process_running", "acquire_GPU_ressources">>]

\* release_gpu(self, state)
release_gpu(g) == release_GPU_ressources(g, plugin_id)

----------------------------------------------------------------------------
(* Plugin: activation *)

\* a faulty is_ready that accepts any directory
IsReadyAnyDir(f_fs, current_path, d) ==
  /\ current_path # <<>>
  /\ PathIsDir(f_fs, current_path, d)

\* the is_ready computation of create_ui
IsReady(f_fs, current_path, d) ==
  /\ current_path # <<>>
  /\ PathIsDir(f_fs, current_path, d)
  /\ PathExists(f_fs, PathJoinAll(current_path, SentinelTail), d)

\* where the delegated import and construction can fail
FailPoints == {"none", "chdir", "import_ImportError", "import_Exception",
               "construct_ui", "panel"}

ActivationOutcomes == [fail : FailPoints, moved : BOOLEAN]

\* a faulty insertion that puts the installation root on the search path
SysPathInsertRoot(sp, mp) ==
  IF mp \in Range(sp) THEN sp ELSE <<mp>> \o sp

\* the src_path / sys.path.insert(0, src_path) lines of render_musubi_ui
SysPathInsert(sp, mp) ==
  LET src_path == PathJoin(mp, <<"src">>)
  IN  IF src_path \in Range(sp) THEN sp ELSE <<src_path>> \o sp

\* a faulty restore that runs after the body instead of in a finally clause
RestoreOnSuccessOnly(original_cwd, body_cwd, raised) ==
  IF raised = "none" THEN original_cwd ELSE body_cwd

\* finally: os.chdir(original_cwd)
FinallyCwd(original_cwd, body_cwd, raised) == original_cwd

\* render_musubi_ui(self, musubi_path, path_state); oc is what the
\* environment and the delegated package do
RenderMusubiUI(mp, sp, d, oc) ==
  LET original_cwd == d
      \* except ImportError as e: raise e -- every exception leaves the call
      raised == CASE oc.fail = "none" -> "none"
                  [] oc.fail = "chdir" -> "OSError"
                  [] oc.fail = "import_ImportError" -> "ImportError"
                  [] OTHER -> "Exception"
      steps == CASE oc.fail = "chdir" -> <<"chdir">>
                 [] oc.fail \in {"import_ImportError", "import_Exception"} ->
                      <<"chdir", "import">>
                 [] oc.fail = "construct_ui" -> <<"chdir", "import", "construct_ui">>
                 [] OTHER -> <<"chdir", "import", "construct_ui", "panel">>
      \* the delegated package may leave the process in another directory
      body_cwd == IF oc.fail = "chdir" THEN d
                  ELSE IF oc.moved THEN PluginDir
                  ELSE AbsPath(mp, d)
  IN  [sys_path |-> SysPathInsert(sp, mp),
       cwd |-> FinallyCwd(original_cwd, body_cwd, raised),
       raised |-> raised,
       steps |-> <<"sys.path">> \o steps]

\* a faulty clause that lets the re-raised ImportError through
CreateUiCatchesNoImportError(raised) ==
  ExceptException(raised) /\ raised # "ImportError"

\* except Exception as e, in create_ui
CreateUiCatches(raised) == ExceptException(raised)

\* create_ui(self)
CreateUiResult(cfg, f_fs, sp, d, oc) ==
  LET current_path == DictGet(cfg, InstallPathKey, <<>>) IN
  IF IsReady(f_fs, current_path, d)
  THEN LET r == RenderMusubiUI(current_path, sp, d, oc) IN
       IF r.raised = "none"
       THEN [ui |-> "musubi", sys_path |-> r.sys_path, cwd |-> r.cwd,
             steps |-> <<"render_musubi_ui">> \o r.steps, raised |-> "none",
             arg |-> current_path]
       ELSE IF CreateUiCatches(r.raised)
       THEN [ui |-> "installer", sys_path |-> r.sys_path, cwd |-> r.cwd,
             steps |-> <<"render_musubi_ui">> \o r.steps
                          \o <<"error_markdown", "render_installer_ui">>,
             raised |-> "none", arg |-> current_path]
       ELSE [ui |-> "none", sys_path |-> r.sys_path, cwd |-> r.cwd,
             steps |-> <<"render_musubi_ui">> \o r.steps, raised |-> r.raised,
             arg |-> current_path]
  ELSE [ui |-> "installer", sys_path |-> sp, cwd |-> d,
        steps |-> <<"render_installer_ui">>, raised |-> "none",
        arg |-> current_path]

----------------------------------------------------------------------------
(* Plugin: the installer form *)

ProcOutcomes == {"ok", "nonzero", "raise"}

\* str(e) of the exception subprocess.check_call raises for command cmd
CheckCallError(cmd, oc) ==
  IF oc = "nonzero"
  THEN <<"Command ", cmd, " returned non-zero exit status ", "1", ".">>
  ELSE <<"[Errno 2] No such file or directory: ", cmd>>

\* what the two commands of the install action do: the clone's exit and the
\* dependency install's exit
InstallOutcomes ==
  [clone : {"nonzero", "raise"}, pip : {"ok"}]
    \cup [clone : {"ok"}, pip : ProcOutcomes]

\* a faulty test that clones whatever the target holds
AlwaysClone(f_fs, target_path, d) == TRUE

\* if not os.path.exists(os.path.join(target_path, ".git"))
NeedsClone(f_fs, target_path, d) == ~PathExists(f_fs, PathJoin(target_path, GitRel), d)

\* the filesystem after a successful git clone of MUSUBI_REPO_URL into
\* target_path: a checkout with .git, pyproject.toml and the GUI module
AfterClone(f_fs, target_path, d) ==
  LET key == AbsComps(target_path, d)
  IN  [k \in (DOMAIN f_fs) \cup {key} |-> IF k = key THEN Features ELSE f_fs[k]]

\* except Exception as e, around the clone
CloneCatches(exc) == ExceptException(exc)

\* the clone branch of install_musubi
CloneStep(f_fs, target_path, d, oc) ==
  LET cloning == <<"Cloning ">> \o MUSUBI_REPO_URL \o <<" into ">>
                   \o target_path \o <<"...">>
      exc == CheckCallRaises(oc.clone)
  IN
  IF NeedsClone(f_fs, target_path, d)
  THEN IF exc = "none"
       THEN [yields |-> <<cloning>>,
             steps |-> <<"git clone">>,
             fs |-> AfterClone(f_fs, target_path, d),
             stop |-> FALSE, raised |-> "none"]
       ELSE IF CloneCatches(exc)
       THEN [yields |-> <<cloning, <<"Error cloning git repo: ">>
                                     \o CheckCallError("git clone", oc.clone)>>,
             steps |-> <<"git clone">>,
             fs |-> f_fs,
             stop |-> TRUE, raised |-> "none"]
       ELSE [yields |-> <<cloning>>, steps |-> <<"git clone">>, fs |-> f_fs,
             stop |-> TRUE, raised |-> exc]
  ELSE [yields |-> << <<"Git repository already exists at ">> \o target_path
                        \o <<". Proceeding to install...">> >>,
        steps |-> <<>>,
        fs |-> f_fs,
        stop |-> FALSE, raised |-> "none"]

\* except Exception as e, around the dependency install
PipCatches(exc) == ExceptException(exc)

\* a faulty except branch without the return
PipNeverStops(exc) == FALSE

\* the except branch of the dependency install ends the action (return)
PipStops(exc) == exc # "none"

\* the pyproject.toml branch of install_musubi
PipStep(f_fs, target_path, d, oc) ==
  LET installing ==
        <<"Installing dependencies via 'pip install -e .' (this may take a minute)...">>
      exc == CheckCallRaises(oc.pip)
  IN
  IF PathExists(f_fs, PathJoin(target_path, PyprojectRel), d)
  THEN IF exc = "none"
       THEN [yields |-> <<installing>>, steps |-> <<"pip install">>,
             stop |-> FALSE, raised |-> "none"]
       ELSE IF PipCatches(exc)
       THEN [yields |-> <<installing, <<"Error installing dependencies: ">>
                                        \o CheckCallError("pip install", oc.pip)>>,
             steps |-> <<"pip install">>,
             stop |-> PipStops(exc), raised |-> "none"]
       ELSE [yields |-> <<installing>>, steps |-> <<"pip install">>,
             stop |-> TRUE, raised |-> exc]
  ELSE [yields |-> <<>>, steps |-> <<>>, stop |-> FALSE, raised |-> "none"]

SuccessText ==
  <<"SUCCESS: Installation Complete!\n\nIMPORTANT: Please restart WanGP to load the training interface.">>

\* install_musubi(target_path)
InstallMusubi(cfg, f_file, f_fs, d, path, oc) ==
  IF path = <<>>
  THEN [yields |-> << <<"Please specify a path.">> >>, steps |-> <<>>,
        config |-> cfg, file |-> f_file, fs |-> f_fs, raised |-> "none"]
  ELSE LET target_path == AbsPath(path, d)
           c == CloneStep(f_fs, target_path, d, oc)
       IN  IF c.stop
           THEN [yields |-> c.yields, steps |-> c.steps,
                 config |-> cfg, file |-> f_file, fs |-> c.fs, raised |-> c.raised]
           ELSE LET q == PipStep(c.fs, target_path, d, oc) IN
                IF q.stop
                THEN [yields |-> c.yields \o q.yields, steps |-> c.steps \o q.steps,
                      config |-> cfg, file |-> f_file, fs |-> c.fs,
                      raised |-> q.raised]
                ELSE LET sv == SaveConfig(cfg, target_path) IN
                     [yields |-> c.yields \o q.yields \o <<SuccessText>>,
                      steps |-> c.steps \o q.steps \o <<"save_config">>,
                      config |-> sv.config, file |-> sv.file, fs |-> c.fs,
                      raised |-> "none"]

\* save_only(path)
SaveOnlyResult(cfg, path) ==
  [save |-> SaveConfig(cfg, path),
   text |-> <<"Path saved. Please restart WanGP if you are changing a valid installation location.">>]

----------------------------------------------------------------------------
(* Plugin: the management panel *)

\* do_update_path(new_path)
DoUpdatePathResult(cfg, new_path) ==
  [save |-> SaveConfig(cfg, new_path),
   text |-> <<"Path saved. Please restart WanGP to load the new location.">>]

\* what the two commands of the update action do
GitUpdateOutcomes ==
  [pull : {"raise"}, stderr : {<<>>}, adds_pyproject : {FALSE}, pip : {"ok"}]
    \cup [pull : {"nonzero"}, stderr : {<<>>, <<"conflict">>},
          adds_pyproject : {FALSE}, pip : {"ok"}]
    \cup [pull : {"ok"}, stderr : {<<>>, <<"conflict">>},
          adds_pyproject : BOOLEAN, pip : ProcOutcomes]

PullStdout == <<"Already up to date.">>
PipStdout == <<"Successfully installed musubi-tuner">>
PipStderr == <<"ERROR: No matching distribution found">>

\* a faulty test that ignores the exit status of git pull
PullNeverFailed(oc) == FALSE

\* if result.returncode != 0: ... return
PullFailed(oc) == oc = "nonzero"

\* the working tree after a successful pull, which may bring a pyproject.toml
AfterPull(f_fs, mp, d, adds) ==
  LET key == AbsComps(mp, d)
  IN  IF adds /\ key \in DOMAIN f_fs
      THEN [f_fs EXCEPT ![key] = @ \cup {"pyproject"}]
      ELSE f_fs

\* except Exception as e, around the whole update
GitUpdateCatches(exc) == ExceptException(exc)

\* except Exception as e, around the dependency install of the update
GitPipCatches(exc) == ExceptException(exc)

\* do_git_update(): the log list, the commands run, the filesystem afterwards
DoGitUpdate(f_fs, mp, d, oc) ==
  LET log0 == << <<"Executing: git pull">> >>
      pull_exc == RunRaises(oc.pull)
      pip_exc == RunRaises(oc.pip)
  IN
  IF pull_exc # "none"
  THEN IF GitUpdateCatches(pull_exc)
       THEN [log |-> log0 \o << <<"Critical Error: ">> \o CheckCallError("git", "raise") >>,
             steps |-> <<"git pull">>, fs |-> f_fs, raised |-> "none"]
       ELSE [log |-> log0, steps |-> <<"git pull">>, fs |-> f_fs, raised |-> pull_exc]
  ELSE LET log1 == log0 \o <<PullStdout>>
                     \o (IF oc.stderr # <<>>
                         THEN << <<"STDERR: ">> \o oc.stderr >> ELSE <<>>)
       IN  IF PullFailed(oc.pull)
           THEN [log |-> log1 \o << <<"Git pull failed.">> >>,
                 steps |-> <<"git pull">>, fs |-> f_fs, raised |-> "none"]
           ELSE LET fs2 == AfterPull(f_fs, mp, d, oc.adds_pyproject)
                    done == << <<"\nUpdate process finished. Please restart WanGP if code changes require it.">> >>
                IN  IF PathExists(fs2, PathJoin(mp, PyprojectRel), d)
                    THEN LET log2 == log1 \o << <<"\nUpdating dependencies (pip install -e .)...">> >>
                             log3 == CASE pip_exc # "none" ->
                                            log2 \o << <<"Pip exception: ">>
                                                        \o CheckCallError("pip", "raise") >>
                                       [] oc.pip = "nonzero" ->
                                            log2 \o <<PipStdout, <<"Pip error: ">> \o PipStderr>>
                                       [] OTHER -> log2 \o <<PipStdout>>
                         IN  IF pip_exc # "none" /\ ~GitPipCatches(pip_exc)
                                  /\ ~GitUpdateCatches(pip_exc)
                             THEN [log |-> log2, steps |-> <<"git pull", "pip install">>,
                                   fs |-> fs2, raised |-> pip_exc]
                             ELSE [log |-> log3 \o done,
                                   steps |-> <<"git pull", "pip install">>, fs |-> fs2,
                                   raised |-> "none"]
                    ELSE [log |-> log1 \o done, steps |-> <<"git pull">>, fs |-> fs2,
                          raised |-> "none"]

\* "\n".join(log)
JoinLog(log) == JoinWith(<<"\n">>, log)

----------------------------------------------------------------------------
(* The environment the plugin runs in *)

\* a directory under the host's working directory whose name holds a quote and
\* a backslash, and the ways to type it
UserRel == <<"m", QUOTE, BSL>>
UserDir == HostCwd \o <<SEP>> \o UserRel
UserDirSlash == UserDir \o <<SEP>>
LocalInstall == PathJoin(PluginDir, DEFAULT_INSTALL_DIR_NAME)

\* what the user can type into a path textbox
InputPaths == {<<>>, UserRel, UserDirSlash, LocalInstall}

UserKey == AbsComps(UserDir, HostCwd)
LocalKey == AbsComps(LocalInstall, HostCwd)
DirKeys == {UserKey, LocalKey}

\* a directory is absent, or present with any of the three entries in it
DirStates == {{}} \cup {{"dir"} \cup x : x \in SUBSET {"git", "pyproject", "sentinel"}}

\* at start-up the default directory is absent or a complete checkout
InitFs ==
  {f \in [DirKeys -> DirStates] : f[LocalKey] \in {{}, Features}}

\* the config document a process can find at start-up
InitFiles ==
  {NoFile,
   [exists |-> TRUE, text |-> <<"{">>],
   [exists |-> TRUE, text |-> JsonDump((InstallPathKey :> UserDir))],
   [exists |-> TRUE, text |-> JsonDump((InstallPathKey :> UserRel) @@ (OtherKey :> <<"x">>))],
   [exists |-> TRUE, text |-> JsonDump((OtherKey :> <<"x">>))]}

\* what the last handler was given, did and reported:
\*   op, arg  the handler and its argument
\*   oc       what the environment did in it ("skipped" for a command not run)
\*   status   the texts it yielded or returned;  steps  the calls it made
\*   raised   the exception that left it
NoOc == [none |-> TRUE]

Ran(steps, cmd, oc) == IF cmd \in Range(steps) THEN oc ELSE "skipped"
NoLast ==
  [op |-> "init", arg |-> <<>>, oc |-> NoOc, status |-> <<>>, steps |-> <<>>,
   raised |-> "none"]

----------------------------------------------------------------------------
(* State machine *)

\* __init__ of the plugin in a freshly started host process
Init ==
  /\ fs \in InitFs
  /\ file \in InitFiles
  /\ config = LoadConfig(file, fs, HostCwd)
  /\ cwd = HostCwd
  /\ sys_path = <<>>
  /\ ui = "none"
  /\ musubi_path = <<>>
  /\ gpu = "none"
  /\ last = NoLast

\* the host builds the tab: create_ui
CreateUI ==
  /\ ui = "none"
  /\ \E oc \in ActivationOutcomes :
       LET r == CreateUiResult(config, fs, sys_path, cwd, oc) IN
       /\ ui' = r.ui
       /\ sys_path' = r.sys_path
       /\ cwd' = r.cwd
       /\ musubi_path' = IF r.ui = "musubi" THEN r.arg ELSE musubi_path
       /\ last' = [op |-> "create_ui", arg |-> r.arg,
                   oc |-> IF "render_musubi_ui" \in Range(r.steps)
                          THEN [fail |-> oc.fail,
                                moved |-> oc.moved /\ oc.fail # "chdir"]
                          ELSE NoOc,
                   status |-> <<>>,
                   steps |-> r.steps, raised |-> r.raised]
  /\ UNCHANGED <<config, file, fs, gpu>>

\* install_btn.click
Install ==
  /\ ui = "installer"
  /\ \E path \in InputPaths, oc \in InstallOutcomes :
       LET r == InstallMusubi(config, file, fs, cwd, path, oc) IN
       /\ config' = r.config
       /\ file' = r.file
       /\ fs' = r.fs
       /\ last' = [op |-> "install_musubi", arg |-> path,
                   oc |-> [clone |-> Ran(r.steps, "git clone", oc.clone),
                           pip |-> Ran(r.steps, "pip install", oc.pip)],
                   status |-> r.yields, steps |-> r.steps, raised |-> r.raised]
  /\ UNCHANGED <<cwd, sys_path, ui, musubi_path, gpu>>

\* save_path_btn.click
SaveOnly ==
  /\ ui = "installer"
  /\ \E path \in InputPaths :
       LET r == SaveOnlyResult(config, path) IN
       /\ config' = r.save.config
       /\ file' = r.save.file
       /\ last' = [op |-> "save_only", arg |-> path, oc |-> NoOc, status |-> <<r.text>>,
                   steps |-> <<"save_config">>, raised |-> "none"]
  /\ UNCHANGED <<fs, cwd, sys_path, ui, musubi_path, gpu>>

\* update_path_btn.click
DoUpdatePath ==
  /\ ui = "musubi"
  /\ \E new_path \in InputPaths :
       LET r == DoUpdatePathResult(config, new_path) IN
       /\ config' = r.save.config
       /\ file' = r.save.file
       /\ last' = [op |-> "do_update_path", arg |-> new_path, oc |-> NoOc,
                   status |-> <<r.text>>,
                   steps |-> <<"save_config">>, raised |-> "none"]
  /\ UNCHANGED <<fs, cwd, sys_path, ui, musubi_path, gpu>>

\* git_update_btn.click
GitUpdate ==
  /\ ui = "musubi"
  /\ \E oc \in GitUpdateOutcomes :
       LET r == DoGitUpdate(fs, musubi_path, cwd, oc) IN
       /\ fs' = r.fs
       /\ last' = [op |-> "do_git_update", arg |-> <<>>,
                   oc |-> [pull |-> oc.pull, stderr |-> oc.stderr,
                           pip |-> Ran(r.steps, "pip install", oc.pip)],
                   status |-> <<JoinLog(r.log)>>,
                   steps |-> r.steps, raised |-> r.raised]
  /\ UNCHANGED <<config, file, cwd, sys_path, ui, musubi_path, gpu>>

\* on_tab_select(self, state)
OnTabSelect ==
  /\ ui # "none"
  /\ LET r == acquire_gpu(gpu) IN
       /\ gpu' = r.gpu
       /\ last' = [op |-> "on_tab_select", arg |-> <<>>, oc |-> NoOc, status |-> <<>>,
                   steps |-> r.steps \o (IF r.waited THEN <<"wait">> ELSE <<>>),
                   raised |-> "none"]
  /\ UNCHANGED <<config, file, fs, cwd, sys_path, ui, musubi_path>>

\* on_tab_deselect(self, state)
OnTabDeselect ==
  /\ ui # "none"
  /\ gpu' = release_gpu(gpu)
  /\ last' = [NoLast EXCEPT !.op = "on_tab_deselect",
                             !.steps = <<"release_GPU_ressources">>]
  /\ UNCHANGED <<config, file, fs, cwd, sys_path, ui, musubi_path>>

\* another plugin of the host takes or gives back the GPU token
OtherPlugin ==
  /\ gpu \in {"none", "other"}
  /\ gpu' = IF gpu = "none" THEN "other" ELSE "none"
  /\ last' = [NoLast EXCEPT !.op = "other_plugin"]
  /\ UNCHANGED <<config, file, fs, cwd, sys_path, ui, musubi_path>>

\* the user restarts the host: a new plugin instance is constructed
Restart ==
  /\ ui # "none"
  /\ config' = LoadConfig(file, fs, HostCwd)
  /\ cwd' = HostCwd
  /\ sys_path' = <<>>
  /\ ui' = "none"
  /\ musubi_path' = <<>>
  /\ gpu' = "none"
  /\ last' = [NoLast EXCEPT !.op = "restart"]
  /\ UNCHANGED <<file, fs>>

Next ==
  \/ CreateUI
  \/ Install
  \/ SaveOnly
  \/ DoUpdatePath
  \/ GitUpdate
  \/ OnTabSelect
  \/ OnTabDeselect
  \/ OtherPlugin
  \/ Restart

Spec == Init /\ [][Next]_vars

TypeOK ==
  /\ ui \in {"none", "installer", "musubi"}
  /\ gpu \in GpuHolders
  /\ DOMAIN fs = DirKeys
  /\ InstallPathKey \in DOMAIN config \/ OtherKey \in DOMAIN config \/ config = EmptyDict

----------------------------------------------------------------------------
(* Properties *)

\* self.config.get("install_path", "")
CurrentPath == DictGet(config, InstallPathKey, <<>>)

\* the sentinel file exists at a recorded (non-empty) path p
SentinelAt(f_fs, p, d) ==
  p # <<>> /\ PathExists(f_fs, PathJoinAll(p, SentinelTail), d)

Did(step) == step \in Range(last.steps)

\* C1: whenever create_ui runs with a config whose install_path has no sentinel
\* file (empty, missing, not a directory, or a directory without the file), it
\* renders the installer form and never calls render_musubi_ui.
C1_InstallerWithoutSentinel ==
  (last.op = "create_ui" /\ ~SentinelAt(fs, CurrentPath, cwd))
    => /\ Did("render_installer_ui")
       /\ ~Did("render_musubi_ui")
       /\ ui = "installer"

\* C1 witness: create_ui ran on a recorded path that is a directory without the
\* sentinel file, and showed the installer.
C1_Witness ==
  /\ last.op = "create_ui"
  /\ CurrentPath # <<>>
  /\ PathIsDir(fs, CurrentPath, cwd)
  /\ ~SentinelAt(fs, CurrentPath, cwd)
  /\ ui = "installer"

\* C2 as claimed: whenever create_ui runs with the sentinel file present at
\* install_path, it inserts <install_path>/src into the module search path,
\* invokes construct_ui and does not show the installer form, also when the
\* delegated import or construction raises.
C2_Original ==
  (last.op = "create_ui" /\ SentinelAt(fs, CurrentPath, cwd))
    => /\ PathJoin(CurrentPath, <<"src">>) \in Range(sys_path)
       /\ Did("construct_ui")
       /\ ~Did("render_installer_ui")

\* C2 amended: whenever create_ui runs with the sentinel file present at
\* install_path, it calls render_musubi_ui, which inserts <install_path>/src into
\* the module search path and invokes construct_ui unless chdir or the import
\* raised; the installer form is shown, after the diagnostic panel, exactly when
\* the activation raised.
C2_ActivationAttempted ==
  (last.op = "create_ui" /\ SentinelAt(fs, CurrentPath, cwd))
    => /\ Did("render_musubi_ui")
       /\ PathJoin(CurrentPath, <<"src">>) \in Range(sys_path)
       /\ Did("construct_ui")
            <=> last.oc.fail \notin {"chdir", "import_ImportError", "import_Exception"}
       /\ Did("render_installer_ui") <=> last.oc.fail # "none"
       /\ Did("error_markdown") <=> last.oc.fail # "none"
       /\ (ui = "musubi") <=> last.oc.fail = "none"

\* C2 witness: create_ui ran with the sentinel file present, the delegated
\* import raised, and the installer form was shown after the diagnostic panel.
C2_Witness ==
  /\ last.op = "create_ui"
  /\ SentinelAt(fs, CurrentPath, cwd)
  /\ last.oc.fail = "import_ImportError"
  /\ PathJoin(CurrentPath, <<"src">>) \in Range(sys_path)
  /\ Did("render_installer_ui")

\* the step just taken ran handler op
Ran1(op) == last'.op = op

SavedPath(op, arg, d) == IF op = "install_musubi" THEN AbsPath(arg, d) ELSE arg

\* the step just taken called save_config
SaveStep ==
  /\ last'.op \in {"install_musubi", "save_only", "do_update_path"}
  /\ "save_config" \in Range(last'.steps)

\* C3 as claimed: after save_config(p), whatever the config and the document held
\* before, load_config() on the document returns exactly {install_path: p}.
C3_Original ==
  [][SaveStep =>
       LoadConfig(file', fs', cwd')
         = (InstallPathKey :> SavedPath(last'.op, last'.arg, cwd))]_vars

\* C3 amended: after save_config(p), load_config() on the document returns the
\* in-memory config as it was before the call with install_path set to p: its
\* install_path is exactly p, and the other keys the config held are kept.
C3_RoundTrip ==
  [][SaveStep =>
       LET p == SavedPath(last'.op, last'.arg, cwd) IN
       /\ LoadConfig(file', fs', cwd') = DictPut(config, InstallPathKey, p)
       /\ LoadConfig(file', fs', cwd')[InstallPathKey] = p
       /\ config' = LoadConfig(file', fs', cwd')]_vars

\* C3 witness: a path holding a quote character was saved into a config that
\* held another key, and the document reads back with both.
C3_Witness ==
  /\ last.op = "save_only"
  /\ last.arg = UserRel
  /\ OtherKey \in DOMAIN config
  /\ file.exists
  /\ LoadConfig(file, fs, cwd) = config
  /\ config[InstallPathKey] = UserRel

\* the text of the failure of the command that stopped the install action
InstallFailure(l) ==
  IF l.oc.clone \notin {"ok", "skipped"}
  THEN CheckCallError("git clone", l.oc.clone)
  ELSE CheckCallError("pip install", l.oc.pip)

InstallFailed(l) ==
  /\ l.op = "install_musubi"
  /\ \/ l.oc.clone \in {"nonzero", "raise"}
     \/ l.oc.pip \in {"nonzero", "raise"}

\* C4: when the clone or the dependency install of the install action exits
\* non-zero or raises, the config and the document are left as they were, no
\* later step runs, and the last status text holds the failure text.
C4_FailedInstallKeepsConfig ==
  [][InstallFailed(last') =>
       /\ config' = config
       /\ file' = file
       /\ "save_config" \notin Range(last'.steps)
       /\ (last'.oc.clone \in {"nonzero", "raise"} => last'.steps = <<"git clone">>)
       /\ Last(last'.steps) \in {"git clone", "pip install"}
       /\ Contains(Last(last'.status), InstallFailure(last'))]_vars

\* C4 witness: the clone succeeded, the dependency install exited non-zero, and
\* the recorded path is not the target.
C4_Witness ==
  /\ last.op = "install_musubi"
  /\ last.oc.clone = "ok"
  /\ last.oc.pip = "nonzero"
  /\ CurrentPath # AbsPath(last.arg, cwd)

\* C5: the working directory after create_ui has called render_musubi_ui is the
\* one before it, whether the call returned or raised.
C5_CwdRestored ==
  [][(Ran1("create_ui") /\ "render_musubi_ui" \in Range(last'.steps))
       => cwd' = cwd]_vars

\* C5 witness: render_musubi_ui raised in construct_ui after the delegated
\* package had changed directory.
C5_Witness ==
  /\ last.op = "create_ui"
  /\ Did("render_musubi_ui")
  /\ last.oc.fail = "construct_ui"
  /\ last.oc.moved
  /\ cwd = HostCwd

\* C6: whenever the install action ends with SUCCESS, the path is persisted and
\* a plugin constructed from the document finds the sentinel file there, so
\* that create_ui renders the delegated UI.
C6_SuccessMeansReady ==
  (last.op = "install_musubi" /\ last.status # <<>> /\ Last(last.status) = SuccessText)
    => LET loaded == LoadConfig(file, fs, HostCwd) IN
       /\ DictGet(loaded, InstallPathKey, <<>>) = AbsPath(last.arg, HostCwd)
       /\ IsReady(fs, DictGet(loaded, InstallPathKey, <<>>), HostCwd)

\* C7: no exception leaves create_ui, the install action or the update action.
C7_NothingEscapes ==
  last.op \in {"create_ui", "install_musubi", "do_git_update"} => last.raised = "none"

\* C7 witness: the import error render_musubi_ui re-raises was caught by
\* create_ui and turned into the diagnostic panel.
C7_Witness ==
  /\ last.op = "create_ui"
  /\ Did("render_musubi_ui")
  /\ last.oc.fail = "import_ImportError"
  /\ Did("error_markdown")
  /\ last.raised = "none"

\* C8: on_tab_select never waits: it warns and leaves the token alone when
\* another plugin holds it, and takes it otherwise; after on_tab_deselect this
\* plugin does not hold the token.
C8_GpuHandshake ==
  [][/\ Ran1("on_tab_select") =>
          /\ "wait" \notin Range(last'.steps)
          /\ "any_GPU_process_running" \in Range(last'.steps)
          /\ IF gpu = "other"
             THEN gpu' = "other" /\ "gr.Warning" \in Range(last'.steps)
             ELSE gpu' = plugin_id /\ "acquire_GPU_ressources" \in Range(last'.steps)
     /\ Ran1("on_tab_deselect") => gpu' # plugin_id]_vars

\* C8 witness: the tab was selected while another plugin held the token, and
\* the plugin warned.
C8_Witness ==
  /\ last.op = "on_tab_select"
  /\ gpu = "other"
  /\ Did("gr.Warning")

\* the install action ran on a non-empty path whose target already had .git
InstallOnRepo ==
  /\ Ran1("install_musubi")
  /\ last'.arg # <<>>
  /\ PathExists(fs, PathJoin(AbsPath(last'.arg, cwd), GitRel), cwd)

\* C9 as claimed: in the install action on a target that already has .git, the
\* clone is not invoked and the dependency install is the next step run.
C9_Original ==
  [][InstallOnRepo =>
       /\ "git clone" \notin Range(last'.steps)
       /\ last'.steps # <<>>
       /\ Head(last'.steps) = "pip install"]_vars

\* C9 amended: in the install action on a target that already has .git, the
\* clone is not invoked; the dependency install is the next step run when the
\* target has a pyproject.toml, and otherwise no command runs and the path is
\* persisted directly.
C9_CloneSkipped ==
  [][InstallOnRepo =>
       /\ "git clone" \notin Range(last'.steps)
       /\ IF PathExists(fs, PathJoin(AbsPath(last'.arg, cwd), PyprojectRel), cwd)
          THEN Head(last'.steps) = "pip install"
          ELSE last'.steps = <<"save_config">>]_vars

\* C9 witness: the install action found a repository with a pyproject.toml and
\* ran the dependency install without cloning.
C9_Witness ==
  /\ last.op = "install_musubi"
  /\ last.oc.clone = "skipped"
  /\ last.oc.pip = "ok"
  /\ last.steps = <<"pip install", "save_config">>

\* C10: when git pull exits non-zero in the update action, the log holds
\* "Git pull failed." and the captured stderr, the dependency install is not
\* invoked, and the delegated UI, the config and the document stay as they were.
C10_PullFailure ==
  [][(Ran1("do_git_update") /\ last'.oc.pull = "nonzero") =>
       /\ Contains(last'.status[1], <<"Git pull failed.">>)
       /\ Contains(last'.status[1], last'.oc.stderr)
       /\ (last'.oc.stderr # <<>> =>
             Contains(last'.status[1], <<"STDERR: ">> \o last'.oc.stderr))
       /\ "pip install" \notin Range(last'.steps)
       /\ ui = "musubi" /\ ui' = "musubi"
       /\ config' = config
       /\ file' = file
       /\ fs' = fs]_vars

\* C10 witness: git pull exited 1 with stderr "conflict".
C10_Witness ==
  /\ last.op = "do_git_update"
  /\ last.oc.pull = "nonzero"
  /\ last.oc.stderr = <<"conflict">>
  /\ Contains(last.status[1], <<"Git pull failed.">>)

====
